---- MODULE Spec2Model ----
(***************************************************************************)
(* State-machine model of the MiniShootout game controller                 *)
(* (src/src/game.ts).                                                      *)
(*                                                                         *)
(* Numbers.  The controller computes in IEEE doubles; the model computes   *)
(* in exact integer arithmetic:                                            *)
(*   - positions and pointer coordinates are whole pixels;                 *)
(*   - radii are kept in hundredths of a pixel (Centi);                    *)
(*   - a velocity is the triple [nx, ny, q] standing for the real vector   *)
(*     (nx, ny) / sqrt(q), which represents 0.3 * d and 32 * d / |d|       *)
(*     exactly; comparisons against thresholds are done on squares;        *)
(*   - Math.pow(x, 0.65) is computed in fixed point with FP fractional     *)
(*     steps by repeated integer square roots;                             *)
(*   - a product of Matter.Body.scale factors is kept as a pair of bags    *)
(*     (numerators, denominators) with common factors cancelled.           *)
(* The physics engine (matter-js) is not part of the repository: what a    *)
(* step does to a live body is a nondeterministic choice of position,      *)
(* velocity and spin (EnginePositions, EngineVelocities, EngineSpins).     *)
(***************************************************************************)
EXTENDS Integers, Sequences, FiniteSets, Bags, TLC

\* ------------------------------------------------------------------ units
Centi == 10 ^ 2
FP == 10 ^ 4

\* ----------------------------------------------------------------- bounds
\* At most MaxShots valid shot gestures are made in one run.
MaxShots == 2

\* ------------------------------------------------------ program constants
baseBallRadius == 56
RestMargin == 90
MinDragDistance == 30
MinUpwardTravel == 20
maxSpeed == 32
UpwardMotionSpeed == 4
TowardGoalSpeed == 2
StopSpeed == 2
OutOfBoundsMargin == 200

Min(a, b) == IF a < b THEN a ELSE b
Max(a, b) == IF a > b THEN a ELSE b
Abs(a) == IF a < 0 THEN 0 - a ELSE a

\* --------------------------------------------------------------- geometry
\* Viewport metrics the platform may report: widths are multiples of 20 so
\* that viewportWidth / 2 and viewportWidth * 0.55 are whole numbers.
Viewports == { [w |-> 400, h |-> 600], [w |-> 500, h |-> 200] }

\* ballStart = { x: viewportWidth / 2, y: viewportHeight - baseBallRadius - 90 }
BallStartOf(w, h) == [x |-> w \div 2, y |-> h - baseBallRadius - RestMargin]

\* createGoal: width = max(180, min(240, viewportWidth * 0.55))
GoalWidthOf(w) == Max(180, Min(240, (11 * w) \div 20))

\* createGoal: thickness = max(18, floor(width * 0.08))
GoalThicknessOf(width) == Max(18, (8 * width) \div 100)

\* ------------------------------------------------------------- velocities
ZeroVelocity == [nx |-> 0, ny |-> 0, q |-> 1]

\* velocity.y < -k, for k >= 0
VyBelowMinus(v, k) == v.ny < 0 /\ v.ny * v.ny > k * k * v.q

\* Math.hypot(velocity.x, velocity.y) < k, for k >= 0
SpeedBelow(v, k) == v.nx * v.nx + v.ny * v.ny < k * k * v.q

\* Math.hypot(velocity.x, velocity.y) > k, for k >= 0
SpeedAbove(v, k) == v.nx * v.nx + v.ny * v.ny > k * k * v.q

\* --------------------------------------------------------- scale products
\* A product of scale factors, as the bag of its numerators over the bag
\* of its denominators (hundredths of a pixel), common factors cancelled.
One == [num |-> EmptyBag, den |-> EmptyBag]

BagCommon(a, b) ==
  [e \in { x \in BagToSet(a) \cap BagToSet(b) : TRUE } |->
     Min(CopiesIn(e, a), CopiesIn(e, b))]

\* product * (n / d)
TimesFactor(product, n, d) ==
  IF n = d THEN product
  ELSE LET num == product.num (+) SetToBag({n})
           den == product.den (+) SetToBag({d})
           common == BagCommon(num, den)
       IN [num |-> num (-) common, den |-> den (-) common]

\* ------------------------------------------------------ perspective scale
RECURSIVE SqrtBetween(_, _, _)
\* the largest r in lo..hi with r * r <= v (lo * lo <= v is given)
SqrtBetween(v, lo, hi) ==
  IF lo >= hi THEN lo
  ELSE LET mid == (lo + hi + 1) \div 2
       IN IF mid * mid <= v THEN SqrtBetween(v, mid, hi)
          ELSE SqrtBetween(v, lo, mid - 1)

\* Math.sqrt on a fixed-point fraction x / FP in [0, 1], rounded to nearest
Root(x) == (SqrtBetween(4 * x * FP, 0, 2 * FP) + 1) \div 2

\* Math.pow(x / FP, 0.65) in fixed point: 0.65 = 1/2 + 1/8 + 1/64 + 1/128 +
\* 1/1024 + 1/2048 to four decimal places, each power a repeated square root.
\* Exact at 0 and at 1, nondecreasing, within 6 / FP of the real power.
Pow065(x) ==
  LET r1 == Root(x)
      r3 == Root(Root(r1))
      r6 == Root(Root(Root(r3)))
      r7 == Root(r6)
      r10 == Root(Root(Root(r7)))
      r11 == Root(r10)
      Times(a, b) == (2 * a * b + FP) \div (2 * FP)
  IN Times(Times(Times(Times(Times(r1, r3), r6), r7), r10), r11)

\* applyPerspectiveScale, lines 308-318: the target radius in hundredths for
\* a ball at height y. topY and the range are kept multiplied by 50, so that
\* height * 0.18 is a whole number.
TargetRadius(y, height, bottomY) ==
  LET clampedY == Min(Max(y, 0), height)
      topY50 == Max(60 * 50, 9 * height)
      range50 == Max(50 * bottomY - topY50, 50)
      normalized == Min(Max(((50 * clampedY - topY50) * FP) \div range50, 0), FP)
      eased == Pow065(normalized)
      scale == 78 * FP + 22 * eased
  IN (baseBallRadius * scale) \div FP

\* applyPerspectiveScale with the sprite's scale left as it was
ApplyPerspectiveScaleBodyOnly(sc, y, height, bottomY) ==
  IF height <= 0 THEN sc
  ELSE LET targetRadius == TargetRadius(y, height, bottomY)
       IN IF 10 * Abs(targetRadius - sc.radius) < 2 * Centi THEN sc
          ELSE [radius |-> targetRadius,
                sprite |-> sc.sprite,
                body |-> TimesFactor(sc.body, targetRadius, sc.radius)]

\* applyPerspectiveScale, on the scale state of the ball: the tracked radius
\* (hundredths), the sprite scale as a product of factors applied to
\* baseSpriteScale, and the body's radius as a product of the factors
\* Matter.Body.scale applied to baseBallRadius
ApplyPerspectiveScale(sc, y, height, bottomY) ==
  IF height <= 0 THEN sc
  ELSE LET targetRadius == TargetRadius(y, height, bottomY)
       IN IF 10 * Abs(targetRadius - sc.radius) < 2 * Centi THEN sc
          ELSE [radius |-> targetRadius,
                sprite |-> TimesFactor(sc.sprite, targetRadius, sc.radius),
                body |-> TimesFactor(sc.body, targetRadius, sc.radius)]

\* resetBallScale: factor = baseBallRadius / currentRadius is applied to the
\* body only when |factor - 1| > 0.001
ResetBallScale(sc) ==
  LET base == baseBallRadius * Centi
  IN [radius |-> base,
      sprite |-> One,
      body |-> IF 1000 * Abs(base - sc.radius) > sc.radius
               THEN TimesFactor(sc.body, base, sc.radius)
               ELSE sc.body]

\* ------------------------------------------------------------------ state
VARIABLES
  isStatic, position, velocity, angularVelocity, bodyScale,  \* this.ball
  ballStart, pointerStart, score, scored,
  currentRadius, currentSpriteScale,
  goalWidth, goalThickness, hadUpwardMotion,
  viewportWidth, viewportHeight,
  timers,           \* pending setTimeout callbacks of handleGoal, oldest first;
                    \* each is tagged with the flight whose goal scheduled it
  pc,               \* where Matter.Engine.update stands: "idle" between ticks,
                    \* "collisionStart" / "afterUpdate" before that event
  listening,        \* FALSE once destroy() has run
  shots,            \* number of flights launched so far (the current flight)
  displayed,        \* the last value passed to onScoreChange (0 at first)
  calls,            \* onScoreChange calls made by the last handler
  goalsThisFlight,  \* score increments since the last launch
  last              \* the last event delivered: [op, from, to]

vars == <<isStatic, position, velocity, angularVelocity, bodyScale,
          ballStart, pointerStart, score, scored,
          currentRadius, currentSpriteScale,
          goalWidth, goalThickness, hadUpwardMotion,
          viewportWidth, viewportHeight,
          timers, pc, listening,
          shots, displayed, calls, goalsThisFlight, last>>

ballVars == <<isStatic, position, velocity, angularVelocity>>
scaleVars == <<currentRadius, currentSpriteScale, bodyScale>>
geometryVars == <<ballStart, goalWidth, goalThickness, viewportWidth, viewportHeight>>

\* pointerStart = null
NoPoint == [x |-> -1, y |-> -1]

\* clientX / clientY of the pointer events delivered
Points ==
  { [x |-> 200, y |-> 500], [x |-> 200, y |-> 490], [x |-> 260, y |-> 500],
    [x |-> 240, y |-> 470], [x |-> 200, y |-> 200], [x |-> 370, y |-> 480] }

Event(op, from, to) == [op |-> op, from |-> from, to |-> to]

CurrentScale ==
  [radius |-> currentRadius, sprite |-> currentSpriteScale, body |-> bodyScale]

SetScale(sc) ==
  /\ currentRadius' = sc.radius
  /\ currentSpriteScale' = sc.sprite
  /\ bodyScale' = sc.body

\* constructor
Init ==
  /\ \E vp \in Viewports :
       /\ viewportWidth = vp.w
       /\ viewportHeight = vp.h
       /\ ballStart = BallStartOf(vp.w, vp.h)
       /\ position = BallStartOf(vp.w, vp.h)
       /\ goalWidth = GoalWidthOf(vp.w)
       /\ goalThickness = GoalThicknessOf(GoalWidthOf(vp.w))
  /\ isStatic = TRUE
  /\ velocity = ZeroVelocity
  /\ angularVelocity = 0
  /\ bodyScale = One
  /\ currentRadius = baseBallRadius * Centi
  /\ currentSpriteScale = One
  /\ pointerStart = NoPoint
  /\ score = 0
  /\ scored = FALSE
  /\ hadUpwardMotion = FALSE
  /\ timers = << >>
  /\ pc = "idle"
  /\ listening = TRUE
  /\ shots = 0
  /\ displayed = 0
  /\ calls = 0
  /\ goalsThisFlight = 0
  /\ last = Event("constructor", NoPoint, NoPoint)

\* ------------------------------------------------------------- resetBall
\* resetBall with the zeroing of the score left out
MissedScoreKept(s) == s

\* resetBall, lines 281-286: the score a miss leaves
MissedScore(s) == IF s # 0 THEN 0 ELSE s

\* resetBall calling onScoreChange only when the miss changed the score
ResetNotifiesOnChange(missed, s) == missed /\ s # 0

\* resetBall never calling onScoreChange
ResetNeverNotifies(missed, s) == FALSE

\* resetBall, lines 281-286: whether the reset calls onScoreChange
ResetNotifies(missed, s) == missed

\* resetBall(missed), entered with the scale state sc and resting place start
ResetBall(missed, sc, start) ==
  /\ isStatic' = TRUE
  /\ SetScale(ResetBallScale(sc))
  /\ position' = start
  /\ velocity' = ZeroVelocity
  /\ angularVelocity' = 0
  /\ score' = IF missed THEN MissedScore(score) ELSE score
  /\ IF ResetNotifies(missed, score)
     THEN displayed' = score' /\ calls' = 1
     ELSE displayed' = displayed /\ calls' = 0
  /\ scored' = FALSE
  /\ hadUpwardMotion' = FALSE

\* ---------------------------------------------------------- pointer events
\* handlePointerUp testing the drag distance only
BelowThresholdDistanceOnly(start, end) ==
  LET dx == end.x - start.x
      dy == end.y - start.y
  IN dx * dx + dy * dy < MinDragDistance * MinDragDistance

\* handlePointerUp, line 179: distance < 30 || upwardTravel < 20
BelowThreshold(start, end) ==
  LET dx == end.x - start.x
      dy == end.y - start.y
  IN \/ dx * dx + dy * dy < MinDragDistance * MinDragDistance
     \/ start.y - end.y < MinUpwardTravel

\* shootBall with the clamp to maxSpeed left out
ShotVelocityUnclamped(delta) ==
  [nx |-> 3 * delta.x, ny |-> 3 * delta.y, q |-> 100]

\* shootBall with speedScale mistyped as 0.03
ShotVelocitySlow(delta) ==
  [nx |-> 3 * delta.x, ny |-> 3 * delta.y, q |-> 100 * 100]

\* shootBall, lines 195-206: the launch velocity for a drag delta; with
\* speedScale = 0.3 the unclamped velocity is (3 dx, 3 dy) / 10
ShotVelocity(delta) ==
  LET v == [nx |-> 3 * delta.x, ny |-> 3 * delta.y, q |-> 100]
  IN IF SpeedAbove(v, maxSpeed)
     THEN [nx |-> maxSpeed * v.nx, ny |-> maxSpeed * v.ny,
           q |-> v.nx * v.nx + v.ny * v.ny]
     ELSE v

\* shootBall(delta), past its isStatic guard
ShootBall(delta) ==
  /\ scored' = FALSE
  /\ SetScale(ResetBallScale(CurrentScale))
  /\ isStatic' = FALSE
  /\ position' = ballStart
  /\ velocity' = ShotVelocity(delta)
  /\ angularVelocity' = 0
  /\ hadUpwardMotion' = VyBelowMinus(ShotVelocity(delta), UpwardMotionSpeed)
  /\ shots' = shots + 1
  /\ goalsThisFlight' = 0

\* handlePointerDown without the test of ball.isStatic
PointerDownIgnoredUnlessPrimary(isPrimary) == ~isPrimary

\* handlePointerDown, line 161: the early return
PointerDownIgnored(isPrimary) == ~isPrimary \/ ~isStatic

\* handlePointerDown
HandlePointerDown(p, isPrimary) ==
  /\ pc = "idle" /\ listening
  /\ pointerStart' = IF PointerDownIgnored(isPrimary) THEN pointerStart ELSE p
  /\ calls' = 0
  /\ last' = Event("pointerdown", NoPoint, NoPoint)
  /\ UNCHANGED <<ballVars, scaleVars, geometryVars, score, scored,
                 hadUpwardMotion, timers, pc, listening, shots, displayed,
                 goalsThisFlight>>

\* handlePointerUp (pointerup, pointercancel, pointerleave)
HandlePointerUp(p, isPrimary) ==
  /\ pc = "idle" /\ listening
  /\ calls' = 0
  /\ UNCHANGED <<geometryVars, score, timers, pc, listening, displayed>>
  /\ IF pointerStart = NoPoint \/ ~isPrimary
     THEN /\ last' = Event("pointerup", NoPoint, NoPoint)
          /\ UNCHANGED <<ballVars, scaleVars, pointerStart, scored,
                         hadUpwardMotion, shots, goalsThisFlight>>
     ELSE /\ last' = Event("pointerup", pointerStart, p)
          /\ pointerStart' = NoPoint
          /\ IF BelowThreshold(pointerStart, p) \/ ~isStatic
             THEN UNCHANGED <<ballVars, scaleVars, scored, hadUpwardMotion,
                              shots, goalsThisFlight>>
             ELSE /\ shots < MaxShots
                  /\ ShootBall([x |-> p.x - pointerStart.x,
                                y |-> p.y - pointerStart.y])

\* ----------------------------------------------------------------- resize
\* handleResize resetting the ball whether it is static or not
ResizeAlwaysSnaps == TRUE

\* handleResize never resetting the ball
ResizeNeverSnaps == FALSE

\* handleResize, line 140: if (this.ball.isStatic)
ResizeSnapsBall == isStatic

\* handleResize, with rebuildStaticBodies and createGoal
HandleResize(vp) ==
  /\ pc = "idle" /\ listening
  /\ viewportWidth' = vp.w
  /\ viewportHeight' = vp.h
  /\ ballStart' = BallStartOf(vp.w, vp.h)
  /\ goalWidth' = GoalWidthOf(vp.w)
  /\ goalThickness' = GoalThicknessOf(GoalWidthOf(vp.w))
  /\ last' = Event("resize", NoPoint, NoPoint)
  /\ IF ResizeSnapsBall
     THEN ResetBall(FALSE, CurrentScale, BallStartOf(vp.w, vp.h))
     ELSE /\ calls' = 0
          /\ UNCHANGED <<ballVars, scaleVars, score, scored, hadUpwardMotion,
                         displayed>>
  /\ UNCHANGED <<pointerStart, timers, pc, listening, shots, goalsThisFlight>>

\* ------------------------------------------------------------ engine tick
\* What one Matter.Engine.update may leave a live ball with. Positions are
\* taken relative to the viewport: in the goal mouth, beside a post (touching
\* the sensor, outside the shrunken inner bounds), one pixel above the
\* resting place, and 250 beyond the left edge.
EnginePositions ==
  { [x |-> viewportWidth \div 2, y |-> viewportHeight \div 3],
    [x |-> viewportWidth \div 2 - 70, y |-> viewportHeight \div 3],
    [x |-> viewportWidth \div 2, y |-> ballStart.y - 1],
    [x |-> -250, y |-> viewportHeight \div 2] }

\* rising fast, rising slowly, falling, and all but stopped
EngineVelocities ==
  { [nx |-> 0, ny |-> -10, q |-> 1], [nx |-> 0, ny |-> -3, q |-> 1],
    [nx |-> 0, ny |-> 3, q |-> 1], [nx |-> 1, ny |-> 0, q |-> 1] }

EngineSpins == { 0, 5 }

\* Matter.Engine.update up to its collisionStart event: a static body is not
\* moved and takes part in no collision with the (static) goal sensor. The
\* body chosen here is the one both listeners of this tick read.
EngineUpdate ==
  /\ pc = "idle" /\ listening
  /\ calls' = 0
  /\ last' = Event("tick", NoPoint, NoPoint)
  /\ IF isStatic
     THEN pc' = "afterUpdate" /\ UNCHANGED ballVars
     ELSE /\ position' \in EnginePositions
          /\ velocity' \in EngineVelocities
          /\ angularVelocity' \in EngineSpins
          /\ pc' \in {"collisionStart", "afterUpdate"}
          /\ UNCHANGED isStatic
  /\ UNCHANGED <<scaleVars, geometryVars, pointerStart, score, scored,
                 hadUpwardMotion, timers, listening, shots, displayed,
                 goalsThisFlight>>

\* handleGoal without its guard against a second goal
NeverAlreadyScored == FALSE

\* handleGoal, line 252
AlreadyScored == scored

\* handleGoal, lines 254-259: withinPosts, compared in thousandths
WithinPosts(x, radius) ==
  LET goalCenterX == 500 * viewportWidth
      inner == 500 * goalWidth - 1000 * goalThickness
  IN /\ 1000 * x > goalCenterX - inner + 6 * radius
     /\ 1000 * x < goalCenterX + inner - 6 * radius

\* handleGoal accepting a ball whatever its vertical motion
MovingTowardGoalAlways(v, hadUpward) == TRUE

\* handleGoal, line 260
MovingTowardGoal(v, hadUpward) == VyBelowMinus(v, TowardGoalSpeed) \/ hadUpward

\* handleGoal, called for the ball / goal-sensor pair of collisionStart
HandleGoal ==
  IF AlreadyScored
       \/ ~WithinPosts(position.x, currentRadius)
       \/ ~MovingTowardGoal(velocity, hadUpwardMotion)
  THEN /\ calls' = 0
       /\ UNCHANGED <<scored, score, displayed, timers, goalsThisFlight>>
  ELSE /\ scored' = TRUE
       /\ score' = score + 1
       /\ displayed' = score + 1
       /\ calls' = 1
       /\ timers' = Append(timers, shots)
       /\ goalsThisFlight' = goalsThisFlight + 1

\* the collisionStart listener
CollisionStart ==
  /\ pc = "collisionStart"
  /\ HandleGoal
  /\ pc' = "afterUpdate"
  /\ last' = Event("collisionStart", NoPoint, NoPoint)
  /\ UNCHANGED <<ballVars, scaleVars, geometryVars, pointerStart,
                 hadUpwardMotion, listening, shots>>

\* afterUpdate listener, lines 236-240
OutOfBounds(pos) ==
  \/ pos.x < 0 - OutOfBoundsMargin
  \/ pos.x > viewportWidth + OutOfBoundsMargin
  \/ pos.y > viewportHeight + OutOfBoundsMargin
  \/ pos.y < 0 - OutOfBoundsMargin

\* afterUpdate listener without the test of the speed
ShotOverOutOfBoundsOnly(pos, v) == OutOfBounds(pos)

\* afterUpdate listener, line 244
ShotOver(pos, v) == OutOfBounds(pos) \/ SpeedBelow(v, StopSpeed)

\* afterUpdate listener treating every resolved shot as a miss
MissedAlways == TRUE

\* afterUpdate listener, line 245
Missed == ~scored

\* afterUpdate listener overwriting the flag with the current motion
UpwardMotionNow(had, static, v) ==
  ~static /\ VyBelowMinus(v, UpwardMotionSpeed)

\* afterUpdate listener, lines 228-230: hadUpwardMotion after the step
UpwardMotionSoFar(had, static, v) ==
  had \/ (~static /\ VyBelowMinus(v, UpwardMotionSpeed))

\* the afterUpdate listener
AfterUpdate ==
  LET sc == ApplyPerspectiveScale(CurrentScale, position.y, viewportHeight,
                                  ballStart.y)
  IN /\ pc = "afterUpdate"
     /\ pc' = "idle"
     /\ last' = Event("afterUpdate", NoPoint, NoPoint)
     /\ IF ~isStatic /\ ShotOver(position, velocity)
        THEN ResetBall(Missed, sc, ballStart)
        ELSE /\ hadUpwardMotion' =
                  UpwardMotionSoFar(hadUpwardMotion, isStatic, velocity)
             /\ SetScale(sc)
             /\ calls' = 0
             /\ UNCHANGED <<ballVars, score, scored, displayed>>
     /\ UNCHANGED <<geometryVars, pointerStart, timers, listening, shots,
                    goalsThisFlight>>

\* the setTimeout callback resetting as for a miss
TimerResetsAsMiss == TRUE

\* handleGoal, line 271: the argument of resetBall(false)
TimerMissed == FALSE

\* the setTimeout callback of handleGoal: resetBall(false), 600 ms after the
\* goal; timers of equal delay run in the order they were set
TimerFires ==
  /\ pc = "idle"
  /\ timers # << >>
  /\ timers' = Tail(timers)
  /\ last' = Event("timer", NoPoint, NoPoint)
  /\ ResetBall(TimerMissed, CurrentScale, ballStart)
  /\ UNCHANGED <<geometryVars, pointerStart, pc, listening, shots,
                 goalsThisFlight>>

\* destroy: the listeners are removed and the runner is stopped
Destroy ==
  /\ pc = "idle" /\ listening
  /\ listening' = FALSE
  /\ calls' = 0
  /\ last' = Event("destroy", NoPoint, NoPoint)
  /\ UNCHANGED <<ballVars, scaleVars, geometryVars, pointerStart, score,
                 scored, hadUpwardMotion, timers, pc, shots, displayed,
                 goalsThisFlight>>

Next ==
  \/ \E p \in Points, isPrimary \in BOOLEAN : HandlePointerDown(p, isPrimary)
  \/ \E p \in Points, isPrimary \in BOOLEAN : HandlePointerUp(p, isPrimary)
  \/ \E vp \in Viewports : HandleResize(vp)
  \/ EngineUpdate
  \/ CollisionStart
  \/ AfterUpdate
  \/ TimerFires
  \/ Destroy

Spec == Init /\ [][Next]_vars

\* Every product of scale factors is in lowest terms with as many numerators
\* as denominators, each denominator the base radius and each numerator
\* below it: such a product is 1 exactly when it is One.
ScaleProductsReduced ==
  \A product \in {bodyScale, currentSpriteScale} :
    /\ BagCardinality(product.num) = BagCardinality(product.den)
    /\ \A d \in BagToSet(product.den) : d = baseBallRadius * Centi
    /\ \A n \in BagToSet(product.num) : n < baseBallRadius * Centi

\* ================================================================ claims
\* What the claims speak of, stated from the events and the state alone.

\* the last event completed a primary pointer-down / pointer-up pair
GestureCompleted(e) == e.op = "pointerup" /\ e.to # NoPoint

\* drag distance < 30 or upward travel (origin.y - end.y) < 20
DragTooShort(e) ==
  \/ (e.to.x - e.from.x) * (e.to.x - e.from.x)
       + (e.to.y - e.from.y) * (e.to.y - e.from.y) < 30 * 30
  \/ e.from.y - e.to.y < 20

\* this step is the afterUpdate listener returning a live ball to rest
TerminationReset == pc = "afterUpdate" /\ ~isStatic /\ isStatic'

\* this step is a reset for a miss / a reset that is not for a miss
MissReset == TerminationReset /\ goalsThisFlight = 0
NonMissReset ==
  \/ TerminationReset /\ goalsThisFlight > 0
  \/ last'.op = "timer"
  \/ last'.op = "resize" /\ isStatic

\* C1: between a launch and the ball's next return to rest the score is
\* incremented at most once, whatever collision events, steps, resizes and
\* timers come in between.
C1_GoalCountedOncePerFlight ==
  /\ [](goalsThisFlight <= 1)
  /\ [][score' > score =>
          /\ score' = score + 1
          /\ goalsThisFlight' = goalsThisFlight + 1
          /\ ~isStatic /\ ~isStatic']_vars

\* a second ball / goal-sensor collision, inside the posts and rising, was
\* delivered in a flight that had already scored, and was ignored
C1_Witness ==
  /\ last.op = "collisionStart" /\ ~isStatic
  /\ goalsThisFlight = 1 /\ calls = 0
  /\ WithinPosts(position.x, currentRadius)
  /\ VyBelowMinus(velocity, 2)

\* C2: a post-goal timer does not return the ball of a later flight to
\* AIMING: when the timer of an earlier flight's goal fires while the ball of
\* a newer flight is live, the ball stays live.
C2_TimerEndsOnlyItsOwnFlight ==
  [][(last'.op = "timer" /\ ~isStatic /\ Head(timers) # shots)
       => ~isStatic']_vars

\* C3: a completed primary gesture with distance < 30 or upward travel < 20
\* fires no shot: the ball stays static, position, velocity, score and flags
\* are unchanged, and the recorded origin is cleared.
C3_ShortDragFiresNoShot ==
  [][(GestureCompleted(last') /\ DragTooShort(last'))
       => /\ pointerStart = last'.from
          /\ pointerStart' = NoPoint
          /\ isStatic /\ isStatic'
          /\ UNCHANGED <<position, velocity, angularVelocity, score, scored,
                         hadUpwardMotion, shots, displayed>>
          /\ calls' = 0]_vars

\* a drag of 30 or more to the right with upward travel below 20 has just
\* been discarded
C3_Witness ==
  /\ GestureCompleted(last)
  /\ last.to.x - last.from.x >= 30 /\ last.from.y - last.to.y < 20
  /\ isStatic /\ pointerStart = NoPoint /\ position = ballStart

\* C4: a collision increments the score only if the ball's x is strictly
\* inside the inner goal bounds shrunk by 0.6 x current radius and
\* (vy < -2 or had-upward-motion); a ball moving downward that never moved
\* upward leaves score and the scored flag unchanged.
C4_GoalNeedsPostsAndUpwardMotion ==
  [][/\ score' > score =>
          /\ pc = "collisionStart"
          /\ 1000 * position.x >
               500 * viewportWidth - (500 * goalWidth - 1000 * goalThickness)
                 + 6 * currentRadius
          /\ 1000 * position.x <
               500 * viewportWidth + (500 * goalWidth - 1000 * goalThickness)
                 - 6 * currentRadius
          /\ (VyBelowMinus(velocity, 2) \/ hadUpwardMotion)
     /\ (pc = "collisionStart" /\ velocity.ny >= 0 /\ ~hadUpwardMotion)
          => UNCHANGED <<score, scored>>]_vars

\* a collision of a falling ball between the posts that never moved upward
\* was delivered and did not score
C4_Witness ==
  /\ last.op = "collisionStart"
  /\ velocity.ny > 0 /\ ~hadUpwardMotion
  /\ 2 * position.x = viewportWidth
  /\ ~scored /\ calls = 0 /\ goalsThisFlight = 0

\* C5: when the step observer finds a live ball out of bounds or stopped and
\* no goal was registered in this flight, the score becomes 0 and the score
\* callback is invoked with 0.
C5_MissZeroesScore ==
  [][(/\ pc = "afterUpdate" /\ ~isStatic /\ goalsThisFlight = 0
      /\ \/ position.x < -200 \/ position.x > viewportWidth + 200
         \/ position.y < -200 \/ position.y > viewportHeight + 200
         \/ velocity.nx * velocity.nx + velocity.ny * velocity.ny
              < 4 * velocity.q)
       => (score' = 0 /\ calls' = 1 /\ displayed' = 0 /\ isStatic')]_vars

\* a flight without a goal has just been resolved as a miss while the timer
\* of an earlier flight's goal is still pending (the score was 1)
C5_Witness ==
  /\ last.op = "afterUpdate" /\ isStatic
  /\ goalsThisFlight = 0 /\ shots = 2 /\ timers = <<1>>
  /\ score = 0 /\ calls = 1 /\ displayed = 0

\* C6 as claimed: a miss reset with the score already 0 does not invoke
\* onScoreChange, and a non-miss reset never invokes it.
C6_NoCallbackWhenAlreadyZero ==
  [][/\ (MissReset /\ score = 0) => calls' = 0
     /\ NonMissReset => calls' = 0]_vars

\* C6 amended: every miss reset invokes onScoreChange exactly once, with 0,
\* also when the score is already 0; a non-miss reset never invokes it and
\* leaves the score as it is.
C6_MissAlwaysNotifiesOnce ==
  [][/\ MissReset => (calls' = 1 /\ displayed' = 0 /\ score' = 0)
     /\ NonMissReset =>
          (calls' = 0 /\ displayed' = displayed /\ score' = score)]_vars

\* the first flight, in which no goal was ever accepted, has just been
\* resolved as a miss: the score was 0 and the callback was invoked
C6_Witness ==
  /\ last.op = "afterUpdate" /\ isStatic /\ shots = 1
  /\ goalsThisFlight = 0 /\ timers = << >>
  /\ score = 0 /\ calls = 1

\* C7: the score changes only by +1 or to 0, each change comes with exactly
\* one onScoreChange call carrying the new value, so the last value passed
\* to the callback is the score after every handler; the score is never
\* negative.
C7_CallbackTracksScore ==
  /\ [](displayed = score /\ score >= 0)
  /\ [][score' # score =>
          /\ score' = score + 1 \/ score' = 0
          /\ calls' = 1
          /\ displayed' = score']_vars

\* the second goal in a row has just been accepted and reported as 2
C7_Witness ==
  /\ last.op = "collisionStart" /\ calls = 1
  /\ score = 2 /\ displayed = 2 /\ scored /\ goalsThisFlight = 1

\* C8: after a valid shot with drag d the launch velocity v has |v| <= 32,
\* points along d, is 0.3 d when |0.3 d| <= 32 and has magnitude 32
\* otherwise; the ball is live with angular velocity 0.
C8_LaunchVelocityClamped ==
  (GestureCompleted(last) /\ ~DragTooShort(last)) =>
    LET dx == last.to.x - last.from.x
        dy == last.to.y - last.from.y
        v == velocity
    IN /\ ~isStatic /\ angularVelocity = 0 /\ position = ballStart
       /\ v.q > 0
       /\ v.nx * v.nx + v.ny * v.ny <= 32 * 32 * v.q
       /\ v.nx * dy = v.ny * dx
       /\ v.nx * dx + v.ny * dy > 0
       /\ IF 9 * (dx * dx + dy * dy) <= 32 * 32 * 100
          THEN /\ 100 * v.nx * v.nx = 9 * dx * dx * v.q
               /\ 100 * v.ny * v.ny = 9 * dy * dy * v.q
          ELSE v.nx * v.nx + v.ny * v.ny = 32 * 32 * v.q

\* a drag of 300 straight up has just launched the ball at speed 32
C8_Witness ==
  /\ GestureCompleted(last) /\ ~DragTooShort(last)
  /\ last.from.y - last.to.y = 300 /\ last.to.x = last.from.x
  /\ ~isStatic
  /\ velocity.nx = 0 /\ velocity.ny < 0
  /\ velocity.ny * velocity.ny = 32 * 32 * velocity.q

\* C9: after any reset the body's radius and the sprite scale are at their
\* base values and the ball's velocity and angular velocity are zero.
C9_ResetRestoresBaseScale ==
  [][(MissReset \/ NonMissReset)
       => /\ bodyScale' = One
          /\ currentSpriteScale' = One
          /\ currentRadius' = baseBallRadius * Centi
          /\ velocity' = ZeroVelocity
          /\ angularVelocity' = 0]_vars

\* C10: the ball becomes live only through a completed valid gesture whose
\* origin was recorded while the ball was static; an origin is only ever
\* recorded while the ball is static; pointer events leave a live ball's
\* position and velocity alone.
C10_FlightOnlyByValidGesture ==
  [][/\ (isStatic /\ ~isStatic')
          => /\ GestureCompleted(last') /\ ~DragTooShort(last')
             /\ pointerStart = last'.from
     /\ (pointerStart' # pointerStart /\ pointerStart' # NoPoint)
          => (isStatic /\ last'.op = "pointerdown")
     /\ (~isStatic /\ last'.op \in {"pointerdown", "pointerup"})
          => UNCHANGED <<isStatic, position, velocity, angularVelocity,
                         pointerStart>>]_vars

\* a pointer-down has just been delivered to a live ball and recorded nothing
C10_Witness ==
  /\ last.op = "pointerdown" /\ ~isStatic /\ pointerStart = NoPoint

\* C11: a flight in which a goal was accepted keeps the incremented score
\* when it resolves, whether by its own timer, by the termination check or
\* by the timer of an earlier goal: the reset zeroes nothing and calls no
\* callback.
C11_ScoredFlightKeepsScore ==
  [][(~isStatic /\ isStatic' /\ goalsThisFlight > 0)
       => (score' = score /\ score >= 1 /\ displayed' = score /\ calls' = 0)]_vars

\* a flight that scored has just been resolved by the termination check
\* while its post-goal timer is still pending
C11_Witness ==
  /\ last.op = "afterUpdate" /\ isStatic
  /\ goalsThisFlight = 1 /\ score >= 1
  /\ timers # << >> /\ timers[Len(timers)] = shots

\* C12: the had-upward-motion flag is false whenever the ball is static,
\* once true it stays true for as long as the ball stays live, and it
\* becomes true only by a launch with vy < -4 or by a step that finds a live
\* ball with vy < -4.
C12_UpwardMotionFlagMonotonic ==
  /\ [](isStatic => ~hadUpwardMotion)
  /\ [][/\ (hadUpwardMotion /\ ~isStatic') => hadUpwardMotion'
        /\ (~hadUpwardMotion /\ hadUpwardMotion') =>
             /\ ~isStatic'
             /\ \/ /\ isStatic
                   /\ velocity'.ny < 0
                   /\ velocity'.ny * velocity'.ny > 16 * velocity'.q
                \/ /\ pc = "afterUpdate" /\ ~isStatic
                   /\ velocity.ny < 0
                   /\ velocity.ny * velocity.ny > 16 * velocity.q]_vars

\* a step has just found a ball falling that rose earlier in its flight: the
\* flag is still set
C12_Witness ==
  /\ last.op = "afterUpdate" /\ ~isStatic
  /\ hadUpwardMotion /\ velocity.ny > 0

\* C13: right after the afterUpdate listener a live ball is within 200 of
\* the viewport on all four sides and has speed >= 2.
C13_LiveBallInPlayAfterStep ==
  (last.op = "afterUpdate" /\ ~isStatic) =>
    /\ position.x >= -200 /\ position.x <= viewportWidth + 200
    /\ position.y >= -200 /\ position.y <= viewportHeight + 200
    /\ velocity.nx * velocity.nx + velocity.ny * velocity.ny >= 4 * velocity.q

\* a live ball in the goal mouth rising slowly has just survived a step
C13_Witness ==
  /\ last.op = "afterUpdate" /\ ~isStatic
  /\ velocity.ny = -3 /\ velocity.q = 1
  /\ 2 * position.x = viewportWidth

\* C14: whenever the ball is static it is at the current resting position
\* (viewportWidth / 2, viewportHeight - baseRadius - 90) with zero velocity
\* and zero angular velocity.
C14_StaticBallAtRest ==
  isStatic =>
    /\ position = ballStart
    /\ 2 * position.x = viewportWidth
    /\ position.y = viewportHeight - 56 - 90
    /\ velocity.nx = 0 /\ velocity.ny = 0
    /\ angularVelocity = 0

\* after a flight, a resize has just been handled with the ball static
C14_Witness ==
  /\ last.op = "resize" /\ isStatic /\ shots >= 1
  /\ viewportHeight = 200 /\ position.y = 54

\* C15: a resize recomputes ballStart and the goal; with the ball live it leaves the
\* static flag, position, velocity, score, scored and had-upward-motion
\* alone and calls no callback; with the ball static it puts the ball at the
\* new resting position, leaves the score alone and calls no callback.
C15_ResizeLeavesFlightAlone ==
  [][last'.op = "resize" =>
       /\ 2 * ballStart'.x = viewportWidth'
       /\ ballStart'.y = viewportHeight' - 56 - 90
       /\ 20 * goalWidth' = Max(20 * 180, Min(20 * 240, 11 * viewportWidth'))
       /\ goalThickness' = Max(18, (8 * goalWidth') \div 100)
       /\ score' = score /\ displayed' = displayed /\ calls' = 0
       /\ isStatic' = isStatic
       /\ ~isStatic =>
            UNCHANGED <<position, velocity, angularVelocity, scored,
                        hadUpwardMotion>>
       /\ isStatic => position' = ballStart']_vars

\* a resize has just been handled during a flight that had scored: the ball
\* is still live, away from the resting position, with its flags
C15_Witness ==
  /\ last.op = "resize" /\ ~isStatic
  /\ position # ballStart /\ scored /\ hadUpwardMotion /\ score >= 1

\* C16: the tracked radius is always within [0.78 x base, base] and the
\* sprite scale relative to its base equals the tracked radius relative to
\* the base radius.
C16_RadiusWithinPerspectiveRange ==
  /\ 100 * currentRadius >= 78 * 56 * Centi
  /\ currentRadius <= 56 * Centi
  /\ currentSpriteScale =
       IF currentRadius = 56 * Centi
       THEN [num |-> EmptyBag, den |-> EmptyBag]
       ELSE [num |-> SetToBag({currentRadius}), den |-> SetToBag({56 * Centi})]

\* a step has just scaled a live ball in the goal mouth down, sprite and
\* radius alike
C16_Witness ==
  /\ last.op = "afterUpdate" /\ ~isStatic
  /\ currentRadius < 50 * Centi
  /\ currentSpriteScale # One

\* C17: after a step that finds the ball static, the tracked radius is the
\* base radius, for every viewport height > 0.
C17_StaticBallKeepsBaseRadius ==
  (last.op = "afterUpdate" /\ isStatic /\ viewportHeight > 0)
    => currentRadius = 56 * Centi

\* C18: every valid shot launches with speed in [9, 32], so not below the
\* stop threshold 2.
C18_LaunchSpeedAtLeastNine ==
  (GestureCompleted(last) /\ ~DragTooShort(last)) =>
    LET speed2 == velocity.nx * velocity.nx + velocity.ny * velocity.ny
    IN /\ ~isStatic
       /\ speed2 >= 9 * 9 * velocity.q
       /\ speed2 <= 32 * 32 * velocity.q
       /\ ~(speed2 < 2 * 2 * velocity.q)

\* a drag of (40, -30), of length 50, has just launched the ball at speed 15
C18_Witness ==
  /\ GestureCompleted(last) /\ ~DragTooShort(last)
  /\ last.to.x - last.from.x = 40 /\ last.to.y - last.from.y = -30
  /\ ~isStatic
  /\ velocity.nx * velocity.nx + velocity.ny * velocity.ny = 15 * 15 * velocity.q

\* C19: once destroy() has run, the score never changes and onScoreChange
\* is never invoked again, pending post-goal timers included.
C19_NoScoreChangeAfterDestroy ==
  [][~listening =>
       (~listening' /\ score' = score /\ displayed' = displayed /\ calls' = 0)]_vars

\* a post-goal timer has just fired after destroy(), with the score kept
C19_Witness ==
  /\ ~listening /\ last.op = "timer"
  /\ isStatic /\ score >= 1 /\ displayed = score /\ calls = 0
====
